---- MODULE Spec2Model ----
(***************************************************************************)
(* Graph execution engine of backend/executor/manager.py.                  *)
(*                                                                         *)
(* Spec models one graph run end to end: the Execution Manager (intake     *)
(* queue, run loop, cancel_execution), the Graph Scheduler's main thread   *)
(* and its cancel watcher thread (Executor._on_graph_execution), and the   *)
(* node tasks of the node-worker pool (Executor.on_node_execution ->       *)
(* execute_node), all interleaved at the granularity of the statements     *)
(* that read or write shared state.                                        *)
(***************************************************************************)
EXTENDS Integers, Sequences, FiniteSets, TLC

\* ---------------------------------------------------------------- bounds
MaxExecs == 3
MaxCancelCalls == 2
MaxProductions == 5
MaxRuns == 2
MaxSize == 2
MaxTasks == 2

\* ------------------------------------------------------ the graph that runs
\* A is the starting node; its block may yield several outputs, each one
\* resolved through the link A -> B; its "error" pin is linked to D.  The
\* block of B declares two credentials fields.
Nodes == {"A", "B", "D"}
StartNode == "A"
OutputLinks(n) == IF n = "A" THEN {"B"} ELSE {}
ErrorLinks(n) == IF n = "A" THEN {"D"} ELSE {}
HasCredentials(n) == n = "B"
CredentialsFields(n) == IF HasCredentials(n) THEN 2 ELSE 0

ExecIds == 1..MaxExecs
NoExec == 0

Terminal == {"COMPLETED", "FAILED", "TERMINATED"}
Pending == {"QUEUED", "RUNNING", "INCOMPLETE"}

VARIABLES
    \* DatabaseManager
    nodeStatus,        \* node_exec_id -> status ("NONE": not created)
    nodeOf,            \* node_exec_id -> node_id
    nodeError,         \* node_exec_id -> an "error" output was pushed
    graphStatus,       \* persisted status of the GraphExecution
    \* ExecutionManager
    intake,            \* "none" | "queued" (in self.queue) | "taken"
    active,            \* graph_exec_id in self.active_graph_runs
    cancel,            \* cancel event: "unset" | "user" | "main"
    cePc,              \* cancel_execution: "idle" | "result" | "update"
    ceCalls,           \* calls of cancel_execution so far
    ceReturned,        \* a call of cancel_execution has returned
    \* Executor._on_graph_execution
    mpc,               \* position of the main thread
    wpc,               \* position of the cancel_handler thread
    queue,             \* ExecutionQueue[NodeExecutionEntry]
    running,           \* running_executions: node_id -> AsyncResult
    exec_data,         \* the entry popped last
    execution_status,
    error,             \* "none" | "balance" | "pool"
    finished,
    retStatus,         \* the status _on_graph_execution returned
    cancelObserved,    \* the cancel event was seen before the run finished
    poolState,         \* cls.executor: "running" | "terminated"
    \* node-worker pool
    tpc,               \* node_exec_id -> position of its task
    \* NotificationManager
    lowBalance,        \* LOW_BALANCE notifications queued
    \* execute_node and the completion callback
    outcome,           \* node_exec_id -> how execute_node went
    locksHeld,         \* node_exec_id -> credential locks acquired, not released
    creds_lock,        \* node_exec_id -> creds_lock is bound to a lock
    node_count,        \* execution_stats.node_count
    \* the end of a run
    files_cleaned,     \* clean_exec_files(graph_exec_id) was called
    final_persisted,   \* on_graph_execution persisted the final status and stats
    agent_run_notifs,  \* AGENT_RUN notifications queued
    \* Data-flow resolver (_enqueue_next_nodes) on one sink node
    rInput,            \* sink node_exec_id -> input_data (pin -> value, 0: absent)
    rStatus,           \* sink node_exec_id -> status ("NONE": not created)
    emitted,           \* the sink executions set QUEUED, in queue-time order
    lockHolder,        \* holder of lock:upsert_input-{sink}-{graph_exec}
    produced,          \* productions so far; production k carries value k
    prodPin,           \* value -> the sink pin its link feeds
    rpc,               \* producer process -> position in register_next_executions
    rlink,             \* producer process -> sink_name of the link it resolves
    rval,              \* producer process -> next_data
    rexec,             \* producer process -> next_node_exec_id
    rdata,             \* producer process -> next_node_input
    rscan,             \* producer process -> incomplete executions still to visit
    \* ExecutionManager serving several runs
    graph_execs,       \* the GraphExecutions create_graph_execution persisted
    broadcasts,        \* events sent by add_execution
    intake_queue,      \* self.queue
    active_graph_runs, \* keys of self.active_graph_runs
    graph_exec_id,     \* the variable graph_exec_id of run_service (0: unbound)
    futures,           \* run -> "none" | "running" | "done"
    lastCall,          \* arguments of the last call of add_execution
    lastResult,        \* "none" | "ok" | the ValueError it raised
    \* one call of Executor.on_node_execution, with its objects
    npc,               \* position of the call
    execution_stats,   \* the NodeExecutionStats on_node_execution created
    stats_copy,        \* the object model_copy returned in execute_node
    stats_ref,         \* object execute_node's execution_stats names
    input_size,        \* execute_node's local input_size
    output_size,       \* execute_node's local output_size
    block_stats,       \* node_block.execution_stats
    raised,            \* exception propagating out of execute_node
    persisted_stats,   \* argument of update_node_execution_stats
    returned_stats,    \* return value of on_node_execution
    graph_stats,       \* the GraphExecutionStats the callbacks fold into
    blocks_raised      \* number of executions whose block raised

schedVars == <<nodeStatus, nodeOf, nodeError, graphStatus, intake, active, cancel,
          cePc, ceCalls, ceReturned, mpc, wpc, queue, running, exec_data,
          execution_status, error, finished, retStatus, cancelObserved,
          poolState, tpc, lowBalance, outcome, locksHeld, creds_lock,
          node_count, files_cleaned, final_persisted, agent_run_notifs>>

execVars == <<outcome, locksHeld, creds_lock, node_count>>

endVars == <<files_cleaned, final_persisted, agent_run_notifs>>

resolverVars == <<rInput, rStatus, emitted, lockHolder, produced, prodPin, rpc,
                  rlink, rval, rexec, rdata, rscan>>

mgrVars == <<graph_execs, broadcasts, intake_queue, active_graph_runs,
             graph_exec_id, futures, lastCall, lastResult>>

statsVars == <<npc, execution_stats, stats_copy, stats_ref, input_size,
               output_size, block_stats, raised, persisted_stats,
               returned_stats, graph_stats, blocks_raised>>

vars == <<schedVars, resolverVars, mgrVars, statsVars>>

dbVars == <<nodeStatus, nodeOf, nodeError, graphStatus>>
emVars == <<intake, active, cePc, ceCalls, ceReturned>>
gwVars == <<mpc, queue, running, exec_data, error, finished, retStatus>>

InFlight == {"start", "creds", "exec", "result", "noresult"}
TaskInFlight(x) == tpc[x] \in InFlight
Ready(x) == tpc[x] = "ready"
IsSet == cancel # "unset"

\* ------------------------------------------- the sink the resolver feeds
\* The sink node has three input links, each to a pin of its own: one static
\* link and two dynamic ones.  Every production carries a fresh value.
InputLinks ==
    { [sink_name |-> "s", is_static |-> TRUE],
      [sink_name |-> "d", is_static |-> FALSE],
      [sink_name |-> "e", is_static |-> FALSE] }
Pins == {l.sink_name : l \in InputLinks}
DynamicPins == {l.sink_name : l \in {k \in InputLinks : ~k.is_static}}
StaticPins == {l.sink_name : l \in {k \in InputLinks : k.is_static}}
SinkExecs == 1..MaxProductions
Values == 1..MaxProductions
Procs == {"p1", "p2"}
EmptyInput == [pin \in Pins |-> 0]

ResolverInit ==
    /\ rInput = [i \in SinkExecs |-> EmptyInput]
    /\ rStatus = [i \in SinkExecs |-> "NONE"]
    /\ emitted = <<>>
    /\ lockHolder = "free"
    /\ produced = 0
    /\ prodPin = [v \in Values |-> "-"]
    /\ rpc = [p \in Procs |-> "idle"]
    /\ rlink = [p \in Procs |-> "-"]
    /\ rval = [p \in Procs |-> 0]
    /\ rexec = [p \in Procs |-> 0]
    /\ rdata = [p \in Procs |-> EmptyInput]
    /\ rscan = [p \in Procs |-> <<>>]

\* ------------------------------------------ the requests the manager gets
\* A request names a graph (found or not) and the graph's starting nodes;
\* a starting node is described by what add_execution looks at.
Runs == 1..MaxRuns
NoRun == 0
NodeKinds ==
    { [block_type |-> "NOTE", webhook_id |-> FALSE, payload |-> FALSE, valid |-> TRUE],
      [block_type |-> "STANDARD", webhook_id |-> FALSE, payload |-> FALSE, valid |-> TRUE],
      [block_type |-> "STANDARD", webhook_id |-> FALSE, payload |-> FALSE, valid |-> FALSE],
      [block_type |-> "INPUT", webhook_id |-> FALSE, payload |-> FALSE, valid |-> TRUE],
      [block_type |-> "WEBHOOK", webhook_id |-> TRUE, payload |-> TRUE, valid |-> TRUE],
      [block_type |-> "WEBHOOK", webhook_id |-> TRUE, payload |-> FALSE, valid |-> TRUE],
      [block_type |-> "WEBHOOK_MANUAL", webhook_id |-> FALSE, payload |-> FALSE, valid |-> TRUE] }
StartingNodes ==
    {<<>>} \cup {<<a>> : a \in NodeKinds} \cup {<<a, b>> : a, b \in NodeKinds}
Requests == [found : BOOLEAN, starting_nodes : StartingNodes]

ManagerInit ==
    /\ graph_execs = {}
    /\ broadcasts = 0
    /\ intake_queue = <<>>
    /\ active_graph_runs = {}
    /\ graph_exec_id = NoRun
    /\ futures = [r \in Runs |-> "none"]
    /\ lastCall = [found |-> FALSE, starting_nodes |-> <<>>]
    /\ lastResult = "none"

\* NodeExecutionStats(): every field at its default.
NodeExecutionStats ==
    [input_size |-> 0, output_size |-> 0, llm_call_count |-> 0,
     error |-> "None", walltime |-> FALSE]
\* GraphExecutionStats(): every counter at zero.
GraphExecutionStats == [node_count |-> 0, node_error_count |-> 0]
NoStats == [NodeExecutionStats EXCEPT !.error = "-", !.walltime = TRUE,
                                      !.input_size = MaxSize + 2]

StatsInit ==
    /\ npc = "idle"
    /\ execution_stats = NoStats
    /\ stats_copy = NoStats
    /\ stats_ref = "caller"
    /\ input_size = 0
    /\ output_size = 0
    /\ block_stats = 0
    /\ raised = FALSE
    /\ persisted_stats = NoStats
    /\ returned_stats = NoStats
    /\ graph_stats = GraphExecutionStats
    /\ blocks_raised = 0

Init ==
    /\ ResolverInit
    /\ ManagerInit
    /\ StatsInit
    /\ nodeStatus = [x \in ExecIds |-> "NONE"]
    /\ nodeOf = [x \in ExecIds |-> "-"]
    /\ nodeError = [x \in ExecIds |-> FALSE]
    /\ graphStatus = "NONE"
    /\ intake = "none"
    /\ active = FALSE
    /\ cancel = "unset"
    /\ cePc = "idle"
    /\ ceCalls = 0
    /\ ceReturned = FALSE
    /\ mpc = "idle"
    /\ wpc = "off"
    /\ queue = <<>>
    /\ running = [n \in Nodes |-> NoExec]
    /\ exec_data = NoExec
    /\ execution_status = "-"
    /\ error = "none"
    /\ finished = FALSE
    /\ retStatus = "-"
    /\ cancelObserved = FALSE
    /\ poolState = "running"
    /\ tpc = [x \in ExecIds |-> "none"]
    /\ lowBalance = 0
    /\ outcome = [x \in ExecIds |-> "none"]
    /\ locksHeld = [x \in ExecIds |-> 0]
    /\ creds_lock = [x \in ExecIds |-> FALSE]
    /\ node_count = 0
    /\ files_cleaned = FALSE
    /\ final_persisted = FALSE
    /\ agent_run_notifs = 0

\* ------------------------------------------------------- ExecutionManager

\* add_execution, the successful path: the GraphExecution and the seed
\* NodeExecution of the starting node are created, the entry is queued.
add_execution ==
    /\ UNCHANGED <<resolverVars, mgrVars, statsVars, endVars, execVars>>
    /\ intake = "none"
    /\ graphStatus' = "QUEUED"
    /\ nodeStatus' = [nodeStatus EXCEPT ![1] = "QUEUED"]
    /\ nodeOf' = [nodeOf EXCEPT ![1] = StartNode]
    /\ intake' = "queued"
    /\ UNCHANGED <<nodeError, active, cancel, cePc, ceCalls, ceReturned, mpc,
                   wpc, queue, running, exec_data, execution_status, error,
                   finished, retStatus, cancelObserved, poolState, tpc,
                   lowBalance>>

\* One iteration of the loop of run_service: pop the entry, mint the cancel
\* event, submit on_graph_execution, register the run as active.
run_service ==
    /\ UNCHANGED <<resolverVars, mgrVars, statsVars, endVars, execVars>>
    /\ intake = "queued"
    /\ intake' = "taken"
    /\ cancel' = "unset"
    /\ active' = TRUE
    /\ mpc' = "submitted"
    /\ UNCHANGED <<dbVars, cePc, ceCalls, ceReturned, wpc, queue, running,
                   exec_data, execution_status, error, finished, retStatus,
                   cancelObserved, poolState, tpc, lowBalance>>

\* The future's done callback: active_graph_runs.pop(graph_exec_id, None).
done_callback ==
    /\ UNCHANGED <<resolverVars, mgrVars, statsVars, endVars, execVars>>
    /\ mpc = "done"
    /\ active
    /\ active' = FALSE
    /\ UNCHANGED <<dbVars, intake, cancel, cePc, ceCalls, ceReturned, mpc, wpc,
                   queue, running, exec_data, execution_status, error,
                   finished, retStatus, cancelObserved, poolState, tpc,
                   lowBalance>>

\* cancel_execution, up to future.result().
cancel_execution_call ==
    /\ UNCHANGED <<resolverVars, mgrVars, statsVars, endVars, execVars>>
    /\ cePc = "idle"
    /\ ceCalls < MaxCancelCalls
    /\ intake # "none"
    /\ ceCalls' = ceCalls + 1
    /\ IF active /\ ~IsSet
         THEN cancel' = "user" /\ cePc' = "result"
         ELSE cancel' = cancel /\ cePc' = "update"
    /\ UNCHANGED <<dbVars, intake, active, ceReturned, mpc, wpc, queue,
                   running, exec_data, execution_status, error, finished,
                   retStatus, cancelObserved, poolState, tpc, lowBalance>>

\* future.result() returns once on_graph_execution has returned.
cancel_execution_result ==
    /\ UNCHANGED <<resolverVars, mgrVars, statsVars, endVars, execVars>>
    /\ cePc = "result"
    /\ mpc = "done"
    /\ cePc' = "update"
    /\ UNCHANGED <<dbVars, intake, active, cancel, ceCalls, ceReturned, mpc,
                   wpc, queue, running, exec_data, execution_status, error,
                   finished, retStatus, cancelObserved, poolState, tpc,
                   lowBalance>>

\* cancel_execution, the status updates, and its return.
cancel_execution_update ==
    /\ UNCHANGED <<resolverVars, mgrVars, statsVars, endVars, execVars>>
    /\ cePc = "update"
    /\ graphStatus' = "TERMINATED"
    /\ nodeStatus' = [x \in ExecIds |->
                        IF nodeStatus[x] \in Pending THEN "TERMINATED"
                                                     ELSE nodeStatus[x]]
    /\ cePc' = "idle"
    /\ ceReturned' = TRUE
    /\ UNCHANGED <<nodeOf, nodeError, intake, active, cancel, ceCalls, mpc,
                   wpc, queue, running, exec_data, execution_status, error,
                   finished, retStatus, cancelObserved, poolState, tpc,
                   lowBalance>>

\* ------------------------------------- Executor.on_graph_execution (main)

\* on_graph_execution up to the main loop: the start time is persisted, the
\* locals are initialised, cancel_thread is started and the queue is seeded
\* with graph_exec.start_node_execs.
graph_start ==
    /\ UNCHANGED <<resolverVars, mgrVars, statsVars, endVars, outcome, locksHeld, creds_lock>>
    /\ node_count' = 0
    /\ mpc = "submitted"
    /\ graphStatus' = "RUNNING"
    /\ execution_status' = "RUNNING"
    /\ error' = "none"
    /\ finished' = FALSE
    /\ wpc' = "wait"
    /\ queue' = <<1>>
    /\ running' = [n \in Nodes |-> NoExec]
    /\ mpc' = "loop"
    /\ UNCHANGED <<nodeStatus, nodeOf, nodeError, emVars, cancel, exec_data,
                   retStatus, cancelObserved, poolState, tpc, lowBalance>>

\* A queue whose get() returns the entry added last.
queue_get_newest(q) ==
    [entry |-> q[Len(q)], rest |-> SubSeq(q, 1, Len(q) - 1)]

\* ExecutionQueue.get(): the entry added first.
queue_get(q) == [entry |-> Head(q), rest |-> Tail(q)]

\* `while not queue.empty()`: leave the loop on an empty queue; otherwise
\* poll the cancel event and pop the next entry.
loop_head ==
    /\ UNCHANGED <<resolverVars, mgrVars, statsVars, endVars, execVars>>
    /\ mpc = "loop"
    /\ IF queue = <<>>
         THEN /\ mpc' = "finally"
              /\ UNCHANGED <<queue, exec_data, execution_status, cancelObserved>>
         ELSE IF IsSet
           THEN /\ execution_status' = "TERMINATED"
                /\ cancelObserved' = TRUE
                /\ mpc' = "finally"
                /\ UNCHANGED <<queue, exec_data>>
           ELSE /\ exec_data' = queue_get(queue).entry
                /\ queue' = queue_get(queue).rest
                /\ mpc' = "wait"
                /\ UNCHANGED <<execution_status, cancelObserved>>
    /\ UNCHANGED <<dbVars, emVars, cancel, wpc, running, error, finished,
                   retStatus, poolState, tpc, lowBalance>>

\* "Avoid parallel execution of the same node": execution.wait() returns only
\* when the earlier task of the node is ready.
node_wait ==
    /\ UNCHANGED <<resolverVars, mgrVars, statsVars, endVars, execVars>>
    /\ mpc = "wait"
    /\ LET execution == running[nodeOf[exec_data]]
       IN  IF execution = NoExec THEN TRUE ELSE Ready(execution)
    /\ mpc' = "charge"
    /\ UNCHANGED <<dbVars, emVars, cancel, wpc, queue, running, exec_data,
                   execution_status, error, finished, retStatus,
                   cancelObserved, poolState, tpc, lowBalance>>

\* The same handler without the re-raise: the loop goes on to apply_async.
insufficient_balance_no_raise ==
    /\ nodeError' = [nodeError EXCEPT ![exec_data] = TRUE]
    /\ execution_status' = "FAILED"
    /\ nodeStatus' = [nodeStatus EXCEPT ![exec_data] = "FAILED"]
    /\ lowBalance' = lowBalance + 1
    /\ error' = "balance"
    /\ mpc' = "submit"

\* The handler of InsufficientBalanceError: "error" output, FAILED, the
\* LOW_BALANCE notification, and the re-raise caught by `except Exception`.
insufficient_balance ==
    /\ nodeError' = [nodeError EXCEPT ![exec_data] = TRUE]
    /\ execution_status' = "FAILED"
    /\ nodeStatus' = [nodeStatus EXCEPT ![exec_data] = "FAILED"]
    /\ lowBalance' = lowBalance + 1
    /\ error' = "balance"
    /\ mpc' = "finally"

\* _charge_usage: it returns, or spend_credits raises.
charge_usage ==
    /\ UNCHANGED <<resolverVars, mgrVars, statsVars, endVars, execVars>>
    /\ mpc = "charge"
    /\ \/ /\ mpc' = "submit"
          /\ UNCHANGED <<nodeError, execution_status, nodeStatus, lowBalance,
                         error>>
       \/ insufficient_balance
    /\ UNCHANGED <<nodeOf, graphStatus, emVars, cancel, wpc, queue, running,
                   exec_data, finished, retStatus, cancelObserved, poolState,
                   tpc>>

\* cls.executor.apply_async: a terminated pool raises ("Pool not running"),
\* which `except Exception` records; a running pool takes the task.
apply_async ==
    /\ UNCHANGED <<resolverVars, mgrVars, statsVars, endVars, execVars>>
    /\ mpc = "submit"
    /\ IF poolState = "terminated"
         THEN /\ error' = "pool"
              /\ mpc' = "finally"
              /\ tpc' = tpc
         ELSE /\ tpc' = [tpc EXCEPT ![exec_data] = "start"]
              /\ mpc' = "assign"
              /\ error' = error
    /\ UNCHANGED <<dbVars, emVars, cancel, wpc, queue, running, exec_data,
                   execution_status, finished, retStatus, cancelObserved,
                   poolState, lowBalance>>

\* running_executions[exec_data.node_id] = <the AsyncResult>.
running_assign ==
    /\ UNCHANGED <<resolverVars, mgrVars, statsVars, endVars, execVars>>
    /\ mpc = "assign"
    /\ running' = [running EXCEPT ![nodeOf[exec_data]] = exec_data]
    /\ mpc' = "inner"
    /\ UNCHANGED <<dbVars, emVars, cancel, wpc, queue, exec_data,
                   execution_status, error, finished, retStatus,
                   cancelObserved, poolState, tpc, lowBalance>>

RunningNonEmpty == \E n \in Nodes : running[n] # NoExec

\* `while queue.empty() and running_executions`: the loop is left when the
\* condition fails; inside, a set cancel event returns TERMINATED and
\* execution.wait(3) changes nothing.
idle_wait ==
    /\ UNCHANGED <<resolverVars, mgrVars, statsVars, endVars, execVars>>
    /\ mpc = "inner"
    /\ IF queue = <<>> /\ RunningNonEmpty
         THEN /\ IsSet
              /\ execution_status' = "TERMINATED"
              /\ cancelObserved' = TRUE
              /\ mpc' = "finally"
         ELSE /\ mpc' = "loop"
              /\ UNCHANGED <<execution_status, cancelObserved>>
    /\ UNCHANGED <<dbVars, emVars, cancel, wpc, queue, running, exec_data,
                   error, finished, retStatus, poolState, tpc, lowBalance>>

\* A finally clause that counts the "error" outputs of the nodes as errors.
FinalStatus_node_errors ==
    IF error # "none" \/ (\E x \in ExecIds : nodeError[x])
      THEN "FAILED" ELSE "COMPLETED"

\* finally: `if error: FAILED else: COMPLETED`.
FinalStatus == IF error # "none" THEN "FAILED" ELSE "COMPLETED"

finally_status ==
    /\ UNCHANGED <<resolverVars, mgrVars, statsVars, endVars, execVars>>
    /\ mpc = "finally"
    /\ execution_status' = FinalStatus
    /\ mpc' = "fin_chk"
    /\ UNCHANGED <<dbVars, emVars, cancel, wpc, queue, running, exec_data,
                   error, finished, retStatus, cancelObserved, poolState, tpc,
                   lowBalance>>

\* finally: `if not cancel.is_set()`.
finally_check ==
    /\ UNCHANGED <<resolverVars, mgrVars, statsVars, endVars, execVars>>
    /\ mpc = "fin_chk"
    /\ mpc' = IF IsSet THEN "join" ELSE "fin_set"
    /\ UNCHANGED <<dbVars, emVars, cancel, wpc, queue, running, exec_data,
                   execution_status, error, finished, retStatus,
                   cancelObserved, poolState, tpc, lowBalance>>

\* finally: `finished = True; cancel.set()`.
finally_set ==
    /\ UNCHANGED <<resolverVars, mgrVars, statsVars, endVars, execVars>>
    /\ mpc = "fin_set"
    /\ finished' = TRUE
    /\ cancel' = IF IsSet THEN cancel ELSE "main"
    /\ mpc' = "join"
    /\ UNCHANGED <<dbVars, emVars, wpc, queue, running, exec_data,
                   execution_status, error, retStatus, cancelObserved,
                   poolState, tpc, lowBalance>>

\* A finally clause that does not wait for the cancel_handler thread.
cancel_thread_join_skipped == TRUE

\* cancel_thread.join() returns when cancel_handler has returned.
cancel_thread_join == wpc = "done"

\* finally: cancel_thread.join().
finally_join ==
    /\ UNCHANGED <<resolverVars, mgrVars, statsVars, endVars, execVars>>
    /\ mpc = "join"
    /\ cancel_thread_join
    /\ mpc' = "clean"
    /\ UNCHANGED <<dbVars, emVars, cancel, wpc, queue, running, exec_data,
                   execution_status, error, finished, retStatus,
                   cancelObserved, poolState, tpc, lowBalance>>

\* An on_graph_execution that queues the notification without persisting.
AfterReturn_notify == "notify"

\* on_graph_execution after _on_graph_execution has returned: the final
\* status and stats are persisted first.
AfterReturn == "persist"

\* finally: clean_exec_files(graph_exec_id), and the return of
\* (execution_stats, execution_status, error).
finally_clean ==
    /\ UNCHANGED <<resolverVars, mgrVars, statsVars, execVars>>
    /\ mpc = "clean"
    /\ files_cleaned' = TRUE
    /\ retStatus' = execution_status
    /\ mpc' = AfterReturn
    /\ UNCHANGED <<dbVars, emVars, cancel, wpc, queue, running, exec_data,
                   execution_status, error, finished, cancelObserved,
                   poolState, tpc, lowBalance, final_persisted,
                   agent_run_notifs>>

\* on_graph_execution: update_graph_execution_stats(status, stats).
graph_persist ==
    /\ UNCHANGED <<resolverVars, mgrVars, statsVars, execVars>>
    /\ mpc = "persist"
    /\ graphStatus' = retStatus
    /\ final_persisted' = TRUE
    /\ mpc' = "notify"
    /\ UNCHANGED <<nodeStatus, nodeOf, nodeError, emVars, cancel, wpc, queue,
                   running, exec_data, execution_status, error, finished,
                   retStatus, cancelObserved, poolState, tpc, lowBalance,
                   files_cleaned, agent_run_notifs>>

\* on_graph_execution: _handle_agent_run_notif queues the AGENT_RUN
\* notification, and on_graph_execution returns.
agent_run_notif ==
    /\ UNCHANGED <<resolverVars, mgrVars, statsVars, execVars>>
    /\ mpc = "notify"
    /\ agent_run_notifs' = agent_run_notifs + 1
    /\ mpc' = "done"
    /\ UNCHANGED <<dbVars, emVars, cancel, wpc, queue, running, exec_data,
                   execution_status, error, finished, retStatus,
                   cancelObserved, poolState, tpc, lowBalance, files_cleaned,
                   final_persisted>>

\* ---------------------------------------------------------- cancel_handler

\* The wait loop ends on a set event; `if finished: return`.
watcher_observe ==
    /\ UNCHANGED <<resolverVars, mgrVars, statsVars, endVars, execVars>>
    /\ wpc = "wait"
    /\ IsSet
    /\ wpc' = IF finished THEN "done" ELSE "mark"
    /\ cancelObserved' = (cancelObserved \/ ~finished)
    /\ UNCHANGED <<dbVars, emVars, cancel, gwVars, execution_status,
                   poolState, tpc, lowBalance>>

\* execution_status = ExecutionStatus.TERMINATED
watcher_mark ==
    /\ UNCHANGED <<resolverVars, mgrVars, statsVars, endVars, execVars>>
    /\ wpc = "mark"
    /\ execution_status' = "TERMINATED"
    /\ wpc' = "terminate"
    /\ UNCHANGED <<dbVars, emVars, cancel, gwVars, cancelObserved, poolState,
                   tpc, lowBalance>>

\* cls.executor.terminate(): the workers are killed; a task in flight never
\* delivers its result.
watcher_terminate ==
    /\ UNCHANGED <<resolverVars, mgrVars, statsVars, endVars, execVars>>
    /\ wpc = "terminate"
    /\ poolState' = "terminated"
    /\ tpc' = [x \in ExecIds |-> IF TaskInFlight(x) THEN "killed" ELSE tpc[x]]
    /\ wpc' = "reinit"
    /\ UNCHANGED <<dbVars, emVars, cancel, gwVars, execution_status,
                   cancelObserved, lowBalance>>

\* cls._init_node_executor_pool()
watcher_reinit ==
    /\ UNCHANGED <<resolverVars, mgrVars, statsVars, endVars, execVars>>
    /\ wpc = "reinit"
    /\ poolState' = "running"
    /\ wpc' = "done"
    /\ UNCHANGED <<dbVars, emVars, cancel, gwVars, execution_status,
                   cancelObserved, tpc, lowBalance>>

\* ------------------------------- Executor.on_node_execution / execute_node

FreeIds == {x \in ExecIds : nodeStatus[x] = "NONE"}
NextId == CHOOSE x \in FreeIds : \A y \in FreeIds : x <= y
Incomplete(n) == {x \in ExecIds : nodeOf[x] = n /\ nodeStatus[x] = "INCOMPLETE"}
Earliest(S) == CHOOSE x \in S : \A y \in S : x <= y

TaskFrame ==
    UNCHANGED <<graphStatus, intake, active, cePc, ceCalls, ceReturned, cancel,
                mpc, running, exec_data, error, finished, retStatus, wpc,
                execution_status, cancelObserved, poolState, lowBalance>>

\* The failed validation without the `return`: execute_node goes on.
validate_failed_no_return(x) ==
    /\ nodeError' = [nodeError EXCEPT ![x] = TRUE]
    /\ nodeStatus' = [nodeStatus EXCEPT ![x] = "FAILED"]
    /\ outcome' = [outcome EXCEPT ![x] = "invalid"]
    /\ tpc' = [tpc EXCEPT ![x] = "creds"]

\* `if input_data is None`: the "error" output, FAILED, return.
validate_failed(x) ==
    /\ nodeError' = [nodeError EXCEPT ![x] = TRUE]
    /\ nodeStatus' = [nodeStatus EXCEPT ![x] = "FAILED"]
    /\ outcome' = [outcome EXCEPT ![x] = "invalid"]
    /\ tpc' = [tpc EXCEPT ![x] = "result"]

\* validate_exec(node, data.data, resolve_input=False): on failure the
\* "error" output and FAILED, then return; otherwise RUNNING.
task_validate(x) ==
    /\ UNCHANGED <<resolverVars, mgrVars, statsVars, endVars>>
    /\ tpc[x] = "start"
    /\ \/ validate_failed(x)
       \/ /\ nodeStatus' = [nodeStatus EXCEPT ![x] = "RUNNING"]
          /\ outcome' = [outcome EXCEPT ![x] = "running"]
          /\ tpc' = [tpc EXCEPT ![x] = "creds"]
          /\ nodeError' = nodeError
    /\ UNCHANGED <<nodeOf, queue, locksHeld, creds_lock, node_count>>
    /\ TaskFrame

\* The loop over get_credentials_fields(): every creds_manager.acquire
\* returns and creds_lock is the lock of the last field, or the acquire of
\* field j raises; the loop stands before the `try`, so the exception leaves
\* execute_node at once and _on_node_execution records it.
task_creds(x) ==
    /\ UNCHANGED <<resolverVars, mgrVars, statsVars, endVars>>
    /\ tpc[x] = "creds"
    /\ LET fields == CredentialsFields(nodeOf[x])
       IN  \/ /\ locksHeld' = [locksHeld EXCEPT ![x] = fields]
              /\ creds_lock' = [creds_lock EXCEPT ![x] = fields > 0]
              /\ tpc' = [tpc EXCEPT ![x] = "exec"]
              /\ outcome' = outcome
           \/ \E j \in 1..fields :
                /\ locksHeld' = [locksHeld EXCEPT ![x] = j - 1]
                /\ creds_lock' = [creds_lock EXCEPT ![x] = j > 1]
                /\ tpc' = [tpc EXCEPT ![x] = "result"]
                /\ outcome' = [outcome EXCEPT ![x] = "creds_failed"]
    /\ UNCHANGED <<dbVars, queue, node_count>>
    /\ TaskFrame

\* The block yields an output and _enqueue_next_nodes resolves it into the
\* sink: the upsert creates a new NodeExecution or fills the earliest
\* incomplete one; a validated input is set QUEUED and added to the queue,
\* an incomplete one stays INCOMPLETE.
task_output(x) ==
    /\ UNCHANGED <<resolverVars, mgrVars, statsVars, endVars, execVars>>
    /\ tpc[x] = "exec"
    /\ \E sink \in OutputLinks(nodeOf[x]) :
         \/ /\ FreeIds # {}
            /\ nodeStatus' = [nodeStatus EXCEPT ![NextId] = "QUEUED"]
            /\ nodeOf' = [nodeOf EXCEPT ![NextId] = sink]
            /\ queue' = Append(queue, NextId)
         \/ /\ FreeIds # {}
            /\ nodeStatus' = [nodeStatus EXCEPT ![NextId] = "INCOMPLETE"]
            /\ nodeOf' = [nodeOf EXCEPT ![NextId] = sink]
            /\ queue' = queue
         \/ /\ Incomplete(sink) # {}
            /\ nodeStatus' = [nodeStatus EXCEPT
                                ![Earliest(Incomplete(sink))] = "QUEUED"]
            /\ queue' = Append(queue, Earliest(Incomplete(sink)))
            /\ nodeOf' = nodeOf
    /\ UNCHANGED <<nodeError, tpc>>
    /\ TaskFrame

\* finally: `if creds_lock and creds_lock.locked(): creds_lock.release()`.
creds_release(x) ==
    locksHeld' = [locksHeld EXCEPT
                    ![x] = IF creds_lock[x] THEN locksHeld[x] - 1 ELSE locksHeld[x]]

\* The output stream is exhausted: COMPLETED, then the finally clause.
task_complete(x) ==
    /\ UNCHANGED <<resolverVars, mgrVars, statsVars, endVars>>
    /\ tpc[x] = "exec"
    /\ nodeStatus' = [nodeStatus EXCEPT ![x] = "COMPLETED"]
    /\ outcome' = [outcome EXCEPT ![x] = "completed"]
    /\ creds_release(x)
    /\ tpc' = [tpc EXCEPT ![x] = "result"]
    /\ UNCHANGED <<nodeOf, nodeError, queue, creds_lock, node_count>>
    /\ TaskFrame

\* The handler without the resolver on the "error" output.
resolve_error_output_skipped(x) ==
    /\ nodeStatus' = [nodeStatus EXCEPT ![x] = "FAILED"]
    /\ UNCHANGED <<nodeOf, queue>>

\* update_execution_status(FAILED), then _enqueue_next_nodes on
\* ("error", error_msg): a link whose source_name is not "error" gives no
\* next_data; the sink of an "error" link gets a NodeExecution, QUEUED and
\* added to the queue if its input validates, INCOMPLETE otherwise.
resolve_error_output(x) ==
    IF ErrorLinks(nodeOf[x]) = {}
      THEN /\ nodeStatus' = [nodeStatus EXCEPT ![x] = "FAILED"]
           /\ UNCHANGED <<nodeOf, queue>>
      ELSE \E sink \in ErrorLinks(nodeOf[x]), st \in {"QUEUED", "INCOMPLETE"} :
             /\ FreeIds # {}
             /\ nodeStatus' = [nodeStatus EXCEPT ![x] = "FAILED", ![NextId] = st]
             /\ nodeOf' = [nodeOf EXCEPT ![NextId] = sink]
             /\ queue' = IF st = "QUEUED" THEN Append(queue, NextId) ELSE queue

\* The block raises: the "error" output, FAILED, the resolver on the "error"
\* output, the re-raise and the finally clause.
task_raise(x) ==
    /\ UNCHANGED <<resolverVars, mgrVars, statsVars, endVars>>
    /\ tpc[x] = "exec"
    /\ nodeError' = [nodeError EXCEPT ![x] = TRUE]
    /\ resolve_error_output(x)
    /\ outcome' = [outcome EXCEPT ![x] = "raised"]
    /\ creds_release(x)
    /\ tpc' = [tpc EXCEPT ![x] = "result"]
    /\ UNCHANGED <<creds_lock, node_count>>
    /\ TaskFrame

\* on_node_execution ends without returning its NodeExecutionStats: the
\* task handle completes with a result that is no stats object.
task_no_stats(x) ==
    /\ UNCHANGED <<resolverVars, mgrVars, statsVars, endVars, execVars>>
    /\ tpc[x] = "result"
    /\ tpc' = [tpc EXCEPT ![x] = "noresult"]
    /\ UNCHANGED <<dbVars, queue>>
    /\ TaskFrame

\* A callback that folds whatever the task returned.
callback_fold_unchecked(x) ==
    /\ node_count' = node_count + 1
    /\ graphStatus' = execution_status

\* `if not isinstance(result, NodeExecutionStats): return`; otherwise
\* node_count += 1 and update_graph_execution_stats(status=execution_status).
callback_fold(x) ==
    IF tpc[x] = "noresult"
      THEN UNCHANGED <<node_count, graphStatus>>
      ELSE /\ node_count' = node_count + 1
           /\ graphStatus' = execution_status

\* The completion callback, run by the pool's result thread before the
\* AsyncResult becomes ready: running_executions.pop(node_id), then the
\* result is folded into execution_stats.  A missing key raises KeyError out
\* of the callback and the AsyncResult never gets ready.
task_callback(x) ==
    /\ UNCHANGED <<resolverVars, mgrVars, statsVars, endVars>>
    /\ tpc[x] \in {"result", "noresult"}
    /\ IF running[nodeOf[x]] = NoExec
         THEN /\ tpc' = [tpc EXCEPT ![x] = "stuck"]
              /\ UNCHANGED <<running, graphStatus, node_count>>
         ELSE /\ running' = [running EXCEPT ![nodeOf[x]] = NoExec]
              /\ callback_fold(x)
              /\ tpc' = [tpc EXCEPT ![x] = "ready"]
    /\ UNCHANGED <<nodeStatus, nodeOf, nodeError, intake, active, cePc,
                   ceCalls, ceReturned, cancel, mpc, queue, exec_data, error,
                   finished, retStatus, wpc, execution_status, cancelObserved,
                   poolState, lowBalance, outcome, locksHeld, creds_lock>>

\* ------------------------------------------------------------ specification

Next ==
    \/ add_execution
    \/ run_service
    \/ done_callback
    \/ cancel_execution_call
    \/ cancel_execution_result
    \/ cancel_execution_update
    \/ graph_start
    \/ loop_head
    \/ node_wait
    \/ charge_usage
    \/ apply_async
    \/ running_assign
    \/ idle_wait
    \/ finally_status
    \/ finally_check
    \/ finally_set
    \/ finally_join
    \/ finally_clean
    \/ graph_persist
    \/ agent_run_notif
    \/ watcher_observe
    \/ watcher_mark
    \/ watcher_terminate
    \/ watcher_reinit
    \/ \E x \in ExecIds : task_validate(x)
    \/ \E x \in ExecIds : task_creds(x)
    \/ \E x \in ExecIds : task_output(x)
    \/ \E x \in ExecIds : task_complete(x)
    \/ \E x \in ExecIds : task_raise(x)
    \/ \E x \in ExecIds : task_no_stats(x)
    \/ \E x \in ExecIds : task_callback(x)

Spec == Init /\ [][Next]_vars

\* The steps the program takes by itself: every thread and process that can
\* take a step eventually takes one.  Calls of add_execution and
\* cancel_execution are the environment's and are not forced.
ProgramStep ==
    \/ run_service
    \/ done_callback
    \/ cancel_execution_result
    \/ cancel_execution_update
    \/ graph_start
    \/ loop_head
    \/ node_wait
    \/ charge_usage
    \/ apply_async
    \/ running_assign
    \/ idle_wait
    \/ finally_status
    \/ finally_check
    \/ finally_set
    \/ finally_join
    \/ finally_clean
    \/ graph_persist
    \/ agent_run_notif
    \/ watcher_observe
    \/ watcher_mark
    \/ watcher_terminate
    \/ watcher_reinit
    \/ \E x \in ExecIds : task_validate(x)
    \/ \E x \in ExecIds : task_creds(x)
    \/ \E x \in ExecIds : task_output(x)
    \/ \E x \in ExecIds : task_complete(x)
    \/ \E x \in ExecIds : task_raise(x)
    \/ \E x \in ExecIds : task_no_stats(x)
    \/ \E x \in ExecIds : task_callback(x)

SpecLive == Init /\ [][Next]_vars /\ WF_vars(ProgramStep)

\* ------------------------------------------------------------------ claims

RunningOf(n) == {x \in ExecIds : nodeOf[x] = n /\ nodeStatus[x] = "RUNNING"}

\* C1: for every node N of the run, at no point do two NodeExecutions of N
\* have status RUNNING at the same time.
C1_OneRunningPerNode ==
    \A n \in Nodes : Cardinality(RunningOf(n)) <= 1

Rank(s) ==
    CASE s = "NONE" -> 0
      [] s = "INCOMPLETE" -> 1
      [] s = "QUEUED" -> 2
      [] s = "RUNNING" -> 3
      [] OTHER -> 4

Forward(a, b) == a = b \/ Rank(a) < Rank(b)

\* C2: the statuses written for a NodeExecution only move forward along
\* INCOMPLETE -> QUEUED -> RUNNING -> (COMPLETED | FAILED | TERMINATED): a
\* terminal status is never replaced and RUNNING never goes back to QUEUED.
C2_StatusMonotonic ==
    [][\A x \in ExecIds : Forward(nodeStatus[x], nodeStatus'[x])]_vars

\* C3: when the scheduler returns COMPLETED (the status on_graph_execution
\* then persists), the ready-queue is empty and no node task is in flight.
C3_CompletedOnlyWhenQuiescent ==
    (mpc = "persist" /\ retStatus = "COMPLETED")
        => (queue = <<>> /\ \A x \in ExecIds : ~TaskInFlight(x))

\* C4: whenever the cancel event was observed before the run finished (by
\* the main loop or by the watcher), the status that _on_graph_execution
\* returns and on_graph_execution persists is TERMINATED.
C4_CancelledReturnsTerminated ==
    (mpc \in {"persist", "notify", "done"} /\ cancelObserved)
        => retStatus = "TERMINATED"

\* C5: after cancel_execution has returned, no NodeExecution of the run is
\* QUEUED, RUNNING or INCOMPLETE, then or later.
C5_NothingPendingAfterCancel ==
    ceReturned => \A x \in ExecIds : nodeStatus[x] \notin Pending

\* C6: once the cancel event of the run is set, no node execution is
\* submitted to a node-worker pool.
C6_NoSubmitAfterCancel ==
    [][IsSet => \A x \in ExecIds : (tpc'[x] = "start" => tpc[x] = "start")]_vars

Finalizing ==
    mpc \in {"finally", "fin_chk", "fin_set", "join", "clean", "persist",
             "notify", "done"}

\* What C7 says of the popped entry and of the scheduler once charging has
\* raised InsufficientBalanceError: "error" output, FAILED, one LOW_BALANCE
\* notification, the entry not submitted, no further dispatch.
BalanceFailureHandled ==
    /\ nodeError[exec_data]
    /\ nodeStatus[exec_data] = "FAILED"
    /\ lowBalance = 1
    /\ tpc[exec_data] = "none"
    /\ Finalizing

\* C7 as claimed: after InsufficientBalanceError the entry and the scheduler
\* are as above and the run's final status is FAILED.
C7_Original ==
    error = "balance" =>
        /\ BalanceFailureHandled
        /\ (mpc \in {"persist", "notify", "done"} => retStatus = "FAILED")

\* C7 amended: as claimed, except that the final status is FAILED provided
\* cancel_execution did not set the cancel event before the scheduler's
\* finally clause (otherwise the watcher may overwrite FAILED by TERMINATED).
C7_BalanceFailure ==
    error = "balance" =>
        /\ BalanceFailureHandled
        /\ ((mpc \in {"persist", "notify", "done"} /\ cancel # "user")
               => retStatus = "FAILED")

C7_Witness ==
    /\ error = "balance"
    /\ mpc = "done"
    /\ retStatus = "FAILED"
    /\ graphStatus = "FAILED"
    /\ \E x \in ExecIds : nodeStatus[x] = "COMPLETED"

\* ------------------------------ _enqueue_next_nodes.register_next_executions
\* Producer processes (node workers) resolve productions into the sink node
\* concurrently, each through register_next_executions for one link.

IsStatic(pin) == pin \in StaticPins

\* A validation that accepts every input.
validate_exec_accept_all(data) == TRUE

\* validate_exec: the input is valid when no inbound link is unpopulated.
validate_exec(data) == \A l \in InputLinks : data[l.sink_name] # 0

\* db_client.upsert_execution_input: the earliest INCOMPLETE execution of the
\* sink that misses the pin, or a new one.
MissingPin(pin) ==
    {i \in SinkExecs : rStatus[i] = "INCOMPLETE" /\ rInput[i][pin] = 0}
FreeSinkIds == {i \in SinkExecs : rStatus[i] = "NONE"}
MinOf(S) == CHOOSE i \in S : \A j \in S : i <= j
UpsertTarget(pin) ==
    IF MissingPin(pin) # {} THEN MinOf(MissingPin(pin)) ELSE MinOf(FreeSinkIds)

\* db_client.get_latest_node_execution: the execution of the sink queued
\* last (0: none).
LatestExecution == IF emitted = <<>> THEN 0 ELSE emitted[Len(emitted)]

\* db_client.get_incomplete_node_executions, with the input_data read.
IsIncomplete(i) == rStatus[i] = "INCOMPLETE"
IncompleteExecutions ==
    LET ids == SelectSeq([i \in SinkExecs |-> i], IsIncomplete)
    IN  [k \in 1..Len(ids) |-> [id |-> ids[k], data |-> rInput[ids[k]]]]

\* static_link_names: the static input links whose pin the data lacks.
StaticLinkNames(data) ==
    {l.sink_name : l \in {k \in InputLinks : k.is_static /\ data[k.sink_name] = 0}}

\* The static completion left out: the input is validated as upserted.
CompleteStaticPins_skip(data) == data

\* "Complete missing static input pins data using the last execution input."
CompleteStaticPins(data) ==
    IF StaticLinkNames(data) # {} /\ LatestExecution # 0
      THEN [pin \in Pins |->
              IF pin \in StaticLinkNames(data)
                THEN rInput[LatestExecution][pin] ELSE data[pin]]
      ELSE data

\* A lock that excludes nobody.
synchronized_enter_nolock(p) == lockHolder' = p

\* synchronized(key): lock.acquire().
synchronized_enter(p) == lockHolder = "free" /\ lockHolder' = p

\* synchronized(key): `if lock.locked(): lock.release()`.
synchronized_exit(p) ==
    lockHolder' = IF lockHolder = p THEN "free" ELSE lockHolder

\* The re-scan of the incomplete executions never done.
AfterEnqueue_never(pin) == "release"

\* "Next execution stops here if the link is not static."
AfterEnqueue(pin) == IF IsStatic(pin) THEN "rescan" ELSE "release"

\* parse_execution_output gave a value for the link: next_data.
r_begin(p, pin) ==
    /\ UNCHANGED <<schedVars, mgrVars, statsVars>>
    /\ rpc[p] = "idle"
    /\ produced < MaxProductions
    /\ produced' = produced + 1
    /\ prodPin' = [prodPin EXCEPT ![produced + 1] = pin]
    /\ rlink' = [rlink EXCEPT ![p] = pin]
    /\ rval' = [rval EXCEPT ![p] = produced + 1]
    /\ rpc' = [rpc EXCEPT ![p] = "acquire"]
    /\ UNCHANGED <<rInput, rStatus, emitted, lockHolder, rexec, rdata, rscan>>

\* with synchronized(f"upsert_input-{next_node_id}-{graph_exec_id}")
r_acquire(p) ==
    /\ UNCHANGED <<schedVars, mgrVars, statsVars>>
    /\ rpc[p] = "acquire"
    /\ synchronized_enter(p)
    /\ rpc' = [rpc EXCEPT ![p] = "upsert"]
    /\ UNCHANGED <<rInput, rStatus, emitted, produced, prodPin, rlink, rval,
                   rexec, rdata, rscan>>

\* next_node_exec_id, next_node_input = db_client.upsert_execution_input(...)
r_upsert(p) ==
    /\ UNCHANGED <<schedVars, mgrVars, statsVars>>
    /\ rpc[p] = "upsert"
    /\ LET t == UpsertTarget(rlink[p])
           data == [rInput[t] EXCEPT ![rlink[p]] = rval[p]]
       IN  /\ rInput' = [rInput EXCEPT ![t] = data]
           /\ rStatus' = [rStatus EXCEPT ![t] = "INCOMPLETE"]
           /\ rexec' = [rexec EXCEPT ![p] = t]
           /\ rdata' = [rdata EXCEPT ![p] = data]
    /\ rpc' = [rpc EXCEPT ![p] = "fill"]
    /\ UNCHANGED <<emitted, lockHolder, produced, prodPin, rlink, rval, rscan>>

\* The static pins are completed from get_latest_node_execution.
r_fill(p) ==
    /\ UNCHANGED <<schedVars, mgrVars, statsVars>>
    /\ rpc[p] = "fill"
    /\ rdata' = [rdata EXCEPT ![p] = CompleteStaticPins(rdata[p])]
    /\ rpc' = [rpc EXCEPT ![p] = "enqueue"]
    /\ UNCHANGED <<rInput, rStatus, emitted, lockHolder, produced, prodPin,
                   rlink, rval, rexec, rscan>>

\* add_enqueued_execution: update_node_execution_status(id, QUEUED, data) and
\* the NodeExecutionEntry appended to enqueued_executions.
add_enqueued_execution(id, data) ==
    /\ rStatus' = [rStatus EXCEPT ![id] = "QUEUED"]
    /\ rInput' = [rInput EXCEPT ![id] = data]
    /\ emitted' = Append(emitted, id)

\* validate_exec of next_node_input; an incomplete input is skipped, a
\* complete one is enqueued.
r_enqueue(p) ==
    /\ UNCHANGED <<schedVars, mgrVars, statsVars>>
    /\ rpc[p] = "enqueue"
    /\ IF validate_exec(rdata[p])
         THEN /\ add_enqueued_execution(rexec[p], rdata[p])
              /\ rpc' = [rpc EXCEPT ![p] = AfterEnqueue(rlink[p])]
         ELSE /\ rpc' = [rpc EXCEPT ![p] = "release"]
              /\ UNCHANGED <<rInput, rStatus, emitted>>
    /\ UNCHANGED <<lockHolder, produced, prodPin, rlink, rval, rexec, rdata,
                   rscan>>

\* for iexec in db_client.get_incomplete_node_executions(...)
r_rescan(p) ==
    /\ UNCHANGED <<schedVars, mgrVars, statsVars>>
    /\ rpc[p] = "rescan"
    /\ rscan' = [rscan EXCEPT ![p] = IncompleteExecutions]
    /\ rpc' = [rpc EXCEPT ![p] = "visit"]
    /\ UNCHANGED <<rInput, rStatus, emitted, lockHolder, produced, prodPin,
                   rlink, rval, rexec, rdata>>

\* One iteration of the loop: the missing static pins of iexec are taken from
\* next_node_input; the execution is enqueued if that completes its input.
r_visit(p) ==
    /\ UNCHANGED <<schedVars, mgrVars, statsVars>>
    /\ rpc[p] = "visit"
    /\ IF rscan[p] = <<>>
         THEN /\ rpc' = [rpc EXCEPT ![p] = "release"]
              /\ UNCHANGED <<rInput, rStatus, emitted, rscan>>
         ELSE LET iexec == Head(rscan[p])
                  idata == [pin \in Pins |->
                              IF pin \in StaticLinkNames(iexec.data)
                                THEN rdata[p][pin] ELSE iexec.data[pin]]
              IN  /\ IF validate_exec(idata)
                       THEN add_enqueued_execution(iexec.id, idata)
                       ELSE UNCHANGED <<rInput, rStatus, emitted>>
                  /\ rscan' = [rscan EXCEPT ![p] = Tail(rscan[p])]
                  /\ rpc' = rpc
    /\ UNCHANGED <<lockHolder, produced, prodPin, rlink, rval, rexec, rdata>>

\* The end of the with block.
r_release(p) ==
    /\ UNCHANGED <<schedVars, mgrVars, statsVars>>
    /\ rpc[p] = "release"
    /\ synchronized_exit(p)
    /\ rpc' = [rpc EXCEPT ![p] = "idle"]
    /\ UNCHANGED <<rInput, rStatus, emitted, produced, prodPin, rlink, rval,
                   rexec, rdata, rscan>>

NextResolver ==
    \/ \E p \in Procs, pin \in Pins : r_begin(p, pin)
    \/ \E p \in Procs : r_acquire(p)
    \/ \E p \in Procs : r_upsert(p)
    \/ \E p \in Procs : r_fill(p)
    \/ \E p \in Procs : r_enqueue(p)
    \/ \E p \in Procs : r_rescan(p)
    \/ \E p \in Procs : r_visit(p)
    \/ \E p \in Procs : r_release(p)

SpecResolver == Init /\ [][NextResolver]_vars

\* redis lock(..., timeout=60): the key of the lock lives 60 seconds at most;
\* a holder still inside the with block then loses the lock without noticing.
lock_expire ==
    /\ UNCHANGED <<schedVars, mgrVars, statsVars>>
    /\ lockHolder # "free"
    /\ lockHolder' = "free"
    /\ UNCHANGED <<rInput, rStatus, emitted, produced, prodPin, rpc, rlink,
                   rval, rexec, rdata, rscan>>

NextResolverExpiry ==
    \/ NextResolver
    \/ lock_expire

\* The resolver with holders that may stay in the with block past the
\* lifetime of the lock.
SpecResolverExpiry == Init /\ [][NextResolverExpiry]_vars

\* ------------------------------------------------ properties of the resolver
DynComplete(data) == \A pin \in DynamicPins : data[pin] # 0
HoldersOf(pin, v) == {i \in SinkExecs : rInput[i][pin] = v}
Upserted(v) == \A p \in Procs : rval[p] = v => rpc[p] \notin {"acquire", "upsert"}
StaticProductions == {v \in 1..produced : IsStatic(prodPin[v])}

\* C8: every value produced on a dynamic link is held by exactly one sink
\* execution once it is upserted, and no sink execution is emitted twice,
\* whatever the interleaving of the producers.
C8_ConsumedOnceEmittedOnce ==
    /\ \A v \in 1..produced :
          (~IsStatic(prodPin[v]) /\ Upserted(v))
              => Cardinality(HoldersOf(prodPin[v], v)) = 1
    /\ \A a, b \in 1..Len(emitted) : emitted[a] = emitted[b] => a = b

\* One producer waits for the lock the other holds, with dynamic values
\* already consumed and an execution already emitted.
C8_Witness ==
    /\ \E p, q \in Procs :
          /\ rpc[p] = "acquire"
          /\ lockHolder = q
          /\ rpc[q] \in {"enqueue", "visit"}
    /\ Len(emitted) >= 1
    /\ \E v \in 1..produced :
          ~IsStatic(prodPin[v]) /\ Upserted(v)
              /\ \E i \in SinkExecs : rStatus[i] = "INCOMPLETE" /\ rInput[i][prodPin[v]] = v

\* p is between lock.acquire() and the end of the with block.
InCriticalSection(p) ==
    rpc[p] \in {"upsert", "fill", "enqueue", "rescan", "visit", "release"}

\* No resolution other than p's is under way in the with block.
NoOtherInside(p) == \A q \in Procs \ {p} : ~InCriticalSection(q)

\* The static resolution of p is over: p is about to leave the with block
\* and no other resolution is half done.
StaticResolved(p) ==
    rpc[p] = "release" /\ IsStatic(rlink[p]) /\ NoOtherInside(p)

\* Every INCOMPLETE execution holds a value on the static pin.
AllIncompleteReceived ==
    \A i \in SinkExecs : rStatus[i] = "INCOMPLETE" => rInput[i]["s"] # 0

\* No INCOMPLETE execution is left that the static value completes, and the
\* executions other than the first recipient that hold the value are queued.
CompletedAreEnqueued(p) ==
    /\ \A i \in SinkExecs : rStatus[i] = "INCOMPLETE" => ~DynComplete(rInput[i])
    /\ \A i \in HoldersOf(rlink[p], rval[p]) :
          i = rexec[p] \/ rStatus[i] = "QUEUED"

StaticDelivered == \E i \in SinkExecs : rInput[i]["s"] # 0

\* C10: once a static value is delivered, a sink execution whose dynamic
\* pins a dynamic resolution completes is queued with the static pin holding
\* a value the static producer made (looked at when the resolution ends and
\* no other one is half done).
C10_StaticVisibleToLater ==
    \A p \in Procs :
        (/\ rpc[p] = "release"
         /\ ~IsStatic(rlink[p])
         /\ NoOtherInside(p)
         /\ StaticDelivered
         /\ DynComplete(rInput[rexec[p]]))
            => /\ rStatus[rexec[p]] = "QUEUED"
               /\ rInput[rexec[p]]["s"] \in StaticProductions

\* The static producer fired once; the second execution of the sink, made of
\* dynamic inputs only, is queued with the static value of the first.
C10_Witness ==
    \E p \in Procs :
        /\ rpc[p] = "release"
        /\ ~IsStatic(rlink[p])
        /\ Cardinality(StaticProductions) = 1
        /\ Len(emitted) = 2
        /\ emitted[2] = rexec[p]
        /\ rStatus[rexec[p]] = "QUEUED"
        /\ rInput[rexec[p]]["s"] = rInput[emitted[1]]["s"]
        /\ rInput[rexec[p]]["s"] \in StaticProductions

\* ------------------------------------------------- claims on execute_node

InQueue(y) == \E k \in 1..Len(queue) : queue[k] = y

\* C11: in the step where the block of a node raises, the NodeExecution gets
\* the "error" output and FAILED, every sink linked to the producer's error
\* pin gets a new NodeExecution (in the queue when QUEUED), and no
\* NodeExecution of a sink linked to another pin is created or changed.
C11_ErrorOutputResolved ==
    [][\A x \in ExecIds :
          (outcome[x] # "raised" /\ outcome'[x] = "raised") =>
              /\ nodeError'[x]
              /\ nodeStatus'[x] = "FAILED"
              /\ \A sink \in ErrorLinks(nodeOf[x]) :
                    \E y \in ExecIds :
                        /\ nodeStatus[y] = "NONE"
                        /\ nodeOf'[y] = sink
                        /\ nodeStatus'[y] \in {"QUEUED", "INCOMPLETE"}
                        /\ nodeStatus'[y] = "QUEUED" => InQueue(y)'
              /\ \A y \in ExecIds :
                    nodeOf'[y] \in OutputLinks(nodeOf[x]) \ ErrorLinks(nodeOf[x])
                        => (nodeStatus'[y] = nodeStatus[y] /\ nodeOf[y] = nodeOf'[y])
      ]_vars

\* A raised: A is FAILED with an "error" output, D has run, B never existed.
C11_Witness ==
    \E x, y \in ExecIds :
        /\ nodeOf[x] = "A" /\ outcome[x] = "raised"
        /\ nodeStatus[x] = "FAILED" /\ nodeError[x]
        /\ nodeOf[y] = "D" /\ outcome[y] = "completed"
        /\ \A z \in ExecIds : nodeOf[z] # "B"

\* C12: a run that ends without a balance error and without a call of
\* cancel_execution returns COMPLETED with no error, whatever block failures
\* its nodes had.
C12_BlockFailureContained ==
    (mpc \in {"persist", "notify", "done"} /\ ceCalls = 0 /\ lowBalance = 0)
        => (retStatus = "COMPLETED" /\ error = "none")

\* A raised, the entry of D it emitted was dispatched afterwards and D
\* completed; the run returned COMPLETED.
C12_Witness ==
    /\ mpc = "done"
    /\ ceCalls = 0
    /\ retStatus = "COMPLETED"
    /\ graphStatus = "COMPLETED"
    /\ \E x, y \in ExecIds :
          /\ outcome[x] = "raised" /\ nodeStatus[x] = "FAILED"
          /\ nodeOf[y] = "D" /\ outcome[y] = "completed" /\ tpc[y] = "ready"

\* C13: from the step where pre-validation fails, the NodeExecution has the
\* "error" output and FAILED, it was not and does not become RUNNING, its
\* task acquires no credential and does not reach the block (from which
\* alone successors are emitted).
C13_InvalidInputStops ==
    [][\A x \in ExecIds :
          outcome'[x] = "invalid" =>
              /\ outcome[x] \in {"none", "invalid"}
              /\ nodeStatus[x] # "RUNNING"
              /\ nodeStatus'[x] = "FAILED"
              /\ nodeError'[x]
              /\ locksHeld'[x] = 0
              /\ tpc'[x] \notin {"creds", "exec"}
      ]_vars

\* An execution of B (whose block declares credentials) failed validation
\* and its task has finished.
C13_Witness ==
    \E x \in ExecIds :
        /\ nodeOf[x] = "B"
        /\ outcome[x] = "invalid"
        /\ tpc[x] = "ready"
        /\ nodeStatus[x] = "FAILED"

TerminalExecs == {x \in ExecIds : nodeStatus[x] \in Terminal}

\* C14: when _on_graph_execution has returned, execution_stats.node_count is
\* the number of NodeExecutions of the run in a terminal state.
C14_NodeCountIsTerminalCount ==
    mpc \in {"persist", "notify", "done"} => node_count = Cardinality(TerminalExecs)

\* C18: a task that has left execute_node holds no credential lock.
C18_CredentialLocksReleased ==
    \A x \in ExecIds :
        tpc[x] \in {"result", "noresult", "ready", "stuck"} => locksHeld[x] = 0

\* --------------------------------------------------- claims on cancellation

\* C16: once cancel_execution has set the cancel event of an active run and
\* waits in future.result(), the scheduler eventually returns and
\* cancel_execution eventually returns.
C16_CancelTerminates ==
    (cePc = "result") ~> (mpc = "done" /\ cePc = "idle")

\* C17: once a call of cancel_execution has returned, a later call does not
\* block in future.result() and its status updates change neither the
\* persisted graph status nor any NodeExecution status.
C17_CancelIdempotent ==
    [][ceReturned =>
          /\ cePc' # "result"
          /\ (cePc = "update" /\ cePc' = "idle")
                => (nodeStatus' = nodeStatus /\ graphStatus' = graphStatus)
      ]_vars

\* --------------------------------------- ExecutionManager over several runs

\* The loop over graph.starting_nodes: NOTE blocks are skipped, a webhook
\* node with a webhook_id needs its payload, validate_exec must accept the
\* input; `inputs` is the length of nodes_input.
RECURSIVE StartingInputs(_)
StartingInputs(nodes) ==
    IF nodes = <<>>
      THEN [error |-> "none", inputs |-> 0]
      ELSE LET node == Head(nodes)
           IN  IF node.block_type = "NOTE"
                 THEN StartingInputs(Tail(nodes))
               ELSE IF /\ node.block_type \in {"WEBHOOK", "WEBHOOK_MANUAL"}
                       /\ node.webhook_id
                       /\ ~node.payload
                 THEN [error |-> "webhook payload is missing", inputs |-> 0]
               ELSE IF ~node.valid
                 THEN [error |-> "input validation", inputs |-> 0]
               ELSE LET rest == StartingInputs(Tail(nodes))
                    IN  [error |-> rest.error, inputs |-> rest.inputs + 1]

\* add_execution without the check of nodes_input.
NoStartingNodes_unchecked(inputs) == FALSE

\* `if not nodes_input`
NoStartingNodes(inputs) == inputs = 0

\* What add_execution does before create_graph_execution: "ok", or the
\* ValueError it raises.
AddExecutionResult(req) ==
    IF ~req.found
      THEN "graph not found"
      ELSE LET si == StartingInputs(req.starting_nodes)
           IN  IF si.error # "none" THEN si.error
               ELSE IF NoStartingNodes(si.inputs) THEN "no starting nodes"
               ELSE "ok"

FreeRuns == Runs \ graph_execs
NewRun == CHOOSE r \in FreeRuns : \A q \in FreeRuns : r <= q

\* add_execution(graph_id, data, ...): a ValueError, or the GraphExecution
\* is created, broadcast and put on the intake queue.
add_execution_request(req) ==
    /\ UNCHANGED <<schedVars, resolverVars, statsVars>>
    /\ lastCall' = req
    /\ lastResult' = AddExecutionResult(req)
    /\ IF AddExecutionResult(req) = "ok"
         THEN /\ FreeRuns # {}
              /\ graph_execs' = graph_execs \cup {NewRun}
              /\ broadcasts' = broadcasts + 1
              /\ intake_queue' = Append(intake_queue, NewRun)
         ELSE UNCHANGED <<graph_execs, broadcasts, intake_queue>>
    /\ UNCHANGED <<active_graph_runs, graph_exec_id, futures>>

\* One iteration of `while True` in run_service: the entry is taken, the
\* task submitted, the pair registered and the done callback added.
run_service_dispatch ==
    /\ UNCHANGED <<schedVars, resolverVars, statsVars>>
    /\ intake_queue # <<>>
    /\ graph_exec_id' = Head(intake_queue)
    /\ intake_queue' = Tail(intake_queue)
    /\ futures' = [futures EXCEPT ![Head(intake_queue)] = "running"]
    /\ active_graph_runs' = active_graph_runs \cup {Head(intake_queue)}
    /\ UNCHANGED <<graph_execs, broadcasts, lastCall, lastResult>>

\* `lambda _: self.active_graph_runs.pop(graph_exec_id, None)`: the name
\* graph_exec_id is looked up when the callback runs.
CallbackKey(r) == graph_exec_id

\* The task of run r completes and its done callback runs.
future_done(r) ==
    /\ UNCHANGED <<schedVars, resolverVars, statsVars>>
    /\ futures[r] = "running"
    /\ futures' = [futures EXCEPT ![r] = "done"]
    /\ active_graph_runs' = active_graph_runs \ {CallbackKey(r)}
    /\ UNCHANGED <<graph_execs, broadcasts, intake_queue, graph_exec_id,
                   lastCall, lastResult>>

NextManager ==
    \/ \E req \in Requests : add_execution_request(req)
    \/ run_service_dispatch
    \/ \E r \in Runs : future_done(r)

SpecManager == Init /\ [][NextManager]_vars

\* C15: a run is in the active-runs map exactly while its task is submitted
\* and not completed.
C15_ActiveWhileRunning ==
    \A r \in Runs : r \in active_graph_runs <=> futures[r] = "running"

IsWebhook(node) == node.block_type \in {"WEBHOOK", "WEBHOOK_MANUAL"}

\* The requests C20 says must fail.
MustFail(req) ==
    LET nodes == req.starting_nodes
    IN  \/ ~req.found
        \/ \E k \in 1..Len(nodes) :
              IsWebhook(nodes[k]) /\ nodes[k].webhook_id /\ ~nodes[k].payload
        \/ \E k \in 1..Len(nodes) : ~nodes[k].valid
        \/ \A k \in 1..Len(nodes) : nodes[k].block_type = "NOTE"

\* C20: a call of add_execution that must fail raises, and the step of a
\* call that raised persists no GraphExecution, broadcasts nothing and puts
\* nothing on the intake queue.
C20_FailedAddLeavesNothing ==
    [][MustFail(lastCall') =>
          /\ lastResult' # "ok"
          /\ (<<lastCall', lastResult'>> # <<lastCall, lastResult>>)
                => UNCHANGED <<graph_execs, broadcasts, intake_queue>>
      ]_vars

\* A NOTE-only request was refused after an earlier request was accepted:
\* the accepted run is all there is.
C20_Witness ==
    /\ lastResult = "no starting nodes"
    /\ Len(lastCall.starting_nodes) = 2
    /\ lastCall.found
    /\ graph_execs = {1}
    /\ broadcasts = 1

\* ------------------------------------------------ claims on the lock

\* C19: at most one process at a time is inside the with block of
\* register_next_executions for the sink.
C19_MutualExclusion ==
    \A p, q \in Procs : (InCriticalSection(p) /\ InCriticalSection(q)) => p = q

\* ------------------------------------- claims on the completion callback

C22_OneAgentRunNotif ==
    [][/\ (agent_run_notifs' # agent_run_notifs)
            => (agent_run_notifs' = 1 /\ final_persisted)
       /\ (mpc' = "done") => (agent_run_notifs' = 1 /\ final_persisted')
      ]_vars

\* The run returned TERMINATED and its notification is queued.
C22_Witness ==
    /\ mpc = "done"
    /\ retStatus = "TERMINATED"
    /\ final_persisted
    /\ agent_run_notifs = 1

\* C23: when _on_graph_execution cleans the scratch files and when it has
\* returned, the cancel event is set and cancel_handler has returned; when
\* it has returned the scratch files are cleaned.
C23_WatcherJoinedFilesCleaned ==
    /\ (mpc = "clean" \/ retStatus # "-") => (IsSet /\ wpc = "done")
    /\ (retStatus # "-") => files_cleaned

\* The exit through a scheduler exception: apply_async raised on the pool
\* the watcher had terminated.
C23_Witness ==
    /\ retStatus = "FAILED"
    /\ error = "pool"
    /\ cancel = "user"
    /\ wpc = "done"
    /\ files_cleaned

\* --------------------------------------- claims on the validated input

EmittedExecs == {emitted[k] : k \in 1..Len(emitted)}

\* C24: a sink execution is QUEUED only with a value on every inbound link,
\* and only a QUEUED execution was ever emitted to the ready-queue: an
\* execution that misses an input is INCOMPLETE and was never emitted.
C24_QueuedOnlyWhenComplete ==
    \A i \in SinkExecs :
        /\ rStatus[i] = "QUEUED" => \A pin \in Pins : rInput[i][pin] # 0
        /\ i \in EmittedExecs => rStatus[i] = "QUEUED"
        /\ (rStatus[i] # "NONE" /\ \E pin \in Pins : rInput[i][pin] = 0)
              => (rStatus[i] = "INCOMPLETE" /\ i \notin EmittedExecs)

\* The fan-in where the producer of e never fires: every production was on
\* d or on s, all resolutions are over, and the sink executions are
\* INCOMPLETE with nothing emitted.
C24_Witness ==
    /\ \A p \in Procs : rpc[p] = "idle"
    /\ produced = MaxProductions
    /\ \A v \in 1..produced : prodPin[v] # "e"
    /\ \E i \in SinkExecs :
          rStatus[i] = "INCOMPLETE" /\ rInput[i]["d"] # 0 /\ rInput[i]["s"] # 0
    /\ emitted = <<>>

\* ------------------------------------------------ claims on the ready-queue

on_node_execution ==
    /\ npc = "idle"
    /\ graph_stats.node_count < MaxTasks
    /\ execution_stats' = NodeExecutionStats
    /\ stats_copy' = NoStats
    /\ stats_ref' = "caller"
    /\ input_size' = 0
    /\ output_size' = 0
    /\ block_stats' = 0
    /\ raised' = FALSE
    /\ persisted_stats' = NoStats
    /\ returned_stats' = NoStats
    /\ npc' = "validate"
    /\ UNCHANGED <<graph_stats, blocks_raised>>
    /\ UNCHANGED <<schedVars, resolverVars, mgrVars>>

\* validate_exec: a failure returns before the try statement; otherwise
\* input_size = len(json.dumps(input_data)).
stats_validate ==
    /\ npc = "validate"
    /\ \/ /\ npc' = "timing"
          /\ UNCHANGED input_size
       \/ \E n \in 1..MaxSize :
              /\ input_size' = n
              /\ npc' = "creds"
    /\ UNCHANGED <<execution_stats, stats_copy, stats_ref, output_size,
                   block_stats, raised, persisted_stats, returned_stats,
                   graph_stats, blocks_raised>>
    /\ UNCHANGED <<schedVars, resolverVars, mgrVars>>

\* The credentials loop, before the try statement: an exception of
\* creds_manager.acquire leaves execute_node without running its finally.
stats_acquire ==
    /\ npc = "creds"
    /\ \/ /\ npc' = "block"
          /\ UNCHANGED raised
       \/ /\ raised' = TRUE
          /\ npc' = "except"
    /\ UNCHANGED <<execution_stats, stats_copy, stats_ref, input_size,
                   output_size, block_stats, persisted_stats, returned_stats,
                   graph_stats, blocks_raised>>
    /\ UNCHANGED <<schedVars, resolverVars, mgrVars>>

\* One output of node_block.execute: output_size += len(json.dumps(...));
\* the block may count a call in its own execution_stats.
block_output ==
    /\ npc = "block"
    /\ \E n \in 1..MaxSize, k \in 0..1 :
          /\ output_size + n <= MaxSize
          /\ block_stats + k <= MaxSize
          /\ output_size' = output_size + n
          /\ block_stats' = block_stats + k
    /\ UNCHANGED <<npc, execution_stats, stats_copy, stats_ref, input_size,
                   raised, persisted_stats, returned_stats,
                   graph_stats, blocks_raised>>
    /\ UNCHANGED <<schedVars, resolverVars, mgrVars>>

\* The block's generator ends, or raises (except clause: raise e).
block_end ==
    /\ npc = "block"
    /\ \E e \in BOOLEAN :
          /\ raised' = e
          /\ blocks_raised' = IF e THEN blocks_raised + 1 ELSE blocks_raised
    /\ npc' = "finally"
    /\ UNCHANGED <<execution_stats, stats_copy, stats_ref, input_size,
                   output_size, block_stats, persisted_stats, returned_stats,
                   graph_stats>>
    /\ UNCHANGED <<schedVars, resolverVars, mgrVars>>

\* BaseModel.model_copy(update=...): a new object with the fields of obj
\* overridden by the block's dump.
model_copy(obj, update) == [obj EXCEPT !.llm_call_count = update]

\* The object the parameter execution_stats of execute_node names.
Referent == IF stats_ref = "caller" THEN execution_stats ELSE stats_copy

\* finally of execute_node:
\*   execution_stats = execution_stats.model_copy(update=...)
\*   execution_stats.input_size = input_size
\*   execution_stats.output_size = output_size
\* The assignment rebinds the parameter to the new object; the two field
\* writes go to the object the parameter names then.
stats_finally ==
    /\ npc = "finally"
    /\ stats_copy' = [model_copy(Referent, block_stats)
                         EXCEPT !.input_size = input_size,
                                !.output_size = output_size]
    /\ stats_ref' = "copy"
    /\ npc' = IF raised THEN "except" ELSE "timing"
    /\ UNCHANGED <<execution_stats, input_size, output_size, block_stats,
                   raised, persisted_stats, returned_stats,
                   graph_stats, blocks_raised>>
    /\ UNCHANGED <<schedVars, resolverVars, mgrVars>>

\* except of _on_node_execution: stats.error = e, on the caller's object.
stats_except ==
    /\ npc = "except"
    /\ execution_stats' = [execution_stats EXCEPT !.error = "Exception"]
    /\ npc' = "timing"
    /\ UNCHANGED <<stats_copy, stats_ref, input_size, output_size,
                   block_stats, raised, persisted_stats, returned_stats,
                   graph_stats, blocks_raised>>
    /\ UNCHANGED <<schedVars, resolverVars, mgrVars>>

\* on_node_execution after _on_node_execution: walltime and cputime, then
\* update_node_execution_stats(node_exec_id, execution_stats) and
\* return execution_stats.
\* if isinstance(execution_stats.error, Exception):
\*     execution_stats.error = str(execution_stats.error)
error_to_str(err) == IF err = "Exception" THEN "str" ELSE err

update_node_execution_stats ==
    /\ npc = "timing"
    /\ execution_stats' = [execution_stats EXCEPT
                              !.walltime = TRUE,
                              !.error = error_to_str(execution_stats.error)]
    /\ persisted_stats' = execution_stats'
    /\ returned_stats' = execution_stats'
    /\ npc' = "done"
    /\ UNCHANGED <<stats_copy, stats_ref, input_size, output_size,
                   block_stats, raised, graph_stats, blocks_raised>>
    /\ UNCHANGED <<schedVars, resolverVars, mgrVars>>

\* (err := result.error) and isinstance(err, Exception)
IsErrorResult(result) == result.error = "Exception"

\* The callback of _on_graph_execution with the NodeExecutionStats that
\* on_node_execution returned: node_count += 1, and node_error_count += 1
\* when the result's error is an Exception.  The worker is then free for
\* its next task.
stats_callback ==
    /\ npc = "done"
    /\ graph_stats' =
          [node_count |-> graph_stats.node_count + 1,
           node_error_count |->
               IF IsErrorResult(returned_stats)
                 THEN graph_stats.node_error_count + 1
                 ELSE graph_stats.node_error_count]
    /\ npc' = "idle"
    /\ UNCHANGED <<execution_stats, stats_copy, stats_ref, input_size,
                   output_size, block_stats, raised, persisted_stats,
                   returned_stats, blocks_raised>>
    /\ UNCHANGED <<schedVars, resolverVars, mgrVars>>

NextNodeStats ==
    \/ on_node_execution
    \/ stats_validate
    \/ stats_acquire
    \/ block_output
    \/ block_end
    \/ stats_finally
    \/ stats_except
    \/ update_node_execution_stats
    \/ stats_callback

SpecNodeStats == Init /\ [][NextNodeStats]_vars

\* --------------------------------------------- claims on the Node Executor

\* C26: a NodeExecution whose task has not yet acquired the credentials of
\* its block is not RUNNING, and one whose acquisition failed is not RUNNING.
C26_RunningAfterCredentials ==
    \A x \in ExecIds :
        /\ tpc[x] = "creds" => nodeStatus[x] # "RUNNING"
        /\ outcome[x] = "creds_failed" => nodeStatus[x] # "RUNNING"

\* C27: after an execution that passed pre-validation, the statistics that
\* on_node_execution persists and returns carry the execution's input_size
\* and output_size and the block's own statistics; stated here for the
\* executions that left execute_node without an exception.
C27_StatsCarrySizes ==
    (npc = "done" /\ input_size > 0 /\ ~raised) =>
        /\ persisted_stats.input_size = input_size
        /\ persisted_stats.output_size = output_size
        /\ persisted_stats.llm_call_count = block_stats
        /\ returned_stats = persisted_stats

\* C28: the scheduler's running map has an entry for a node only while that
\* node's task is in flight, and the completion callback's pop never finds
\* its key missing.
C28_RunningEntryWhileInFlight ==
    \A x \in ExecIds :
        /\ tpc[x] # "stuck"
        /\ (nodeOf[x] \in Nodes /\ running[nodeOf[x]] = x) => TaskInFlight(x)

\* ------------------------------------------- claims on the end of a run

\* C29: once a terminal status is persisted for the GraphExecution, no later
\* step persists a different status for it; stated here for the steps that
\* persist a terminal status (cancel_execution, the completion callbacks and
\* the scheduler's final write).
C29_TerminalGraphStatusIsFinal ==
    [][(graphStatus \in Terminal /\ graphStatus' \in Terminal)
          => (graphStatus' = graphStatus)]_vars

\* C30: once _on_graph_execution has returned its status, no node task it
\* submitted is still in flight; stated here for the runs that no call of
\* cancel_execution has touched.
C30_NoTaskInFlightAfterReturn ==
    (mpc \in {"persist", "notify", "done"} /\ ceCalls = 0)
        => \A x \in ExecIds : ~TaskInFlight(x)

\* C31: at the end of a run execution_stats.node_error_count counts the
\* executions whose callback delivered stats with an error; in particular it
\* is positive once the callback of an execution whose block raised has run.
C31_ErrorCountPositive ==
    (npc = "idle" /\ blocks_raised > 0) => graph_stats.node_error_count > 0

\* C32: a run for which cancel_execution returned while its entry was still
\* waiting in the intake queue is not submitted to a graph worker afterwards.
C32_CancelledInQueueNeverRuns ==
    [][(ceReturned /\ intake = "queued")
          => (intake' # "taken" /\ mpc' = "idle")]_vars

\* C33: a run that no cancel_execution call and no charging error touches is
\* eventually finalized, under fair scheduling of the program's steps.
C33_RunFinalizes ==
    (mpc = "submitted") ~> (mpc = "done" \/ ceCalls > 0 \/ error = "balance")

====
